---- MODULE Spec2Model ----
(***************************************************************************)
(* Voice-activity-gated audio capture of the voice cloning application:    *)
(*   - DualAudioInterface (src/dual_audio_interface.py): the push-mode     *)
(*     gate run from the PyAudio input callback, the recording session     *)
(*     (start_recording / stop_recording), and the output path             *)
(*     (_output_thread / interrupt);                                       *)
(*   - SmartAudioRecorder (src/smart_audio_recorder.py): the pull-mode     *)
(*     gate run by the loop of record().                                   *)
(*                                                                         *)
(* An audio chunk is a record [id, samples]: samples are the signed 16-bit *)
(* samples of the chunk and id is its position in the order of arrival,    *)
(* which stands for the chunk's distinct content.  Durations of the push   *)
(* mode are held in units of 1/(16000*2) second (one byte of 16 kHz 16-bit *)
(* mono audio), so that len(speech_frames) * len(in_data) / (16000 * 2) is *)
(* an integer in that unit.                                                *)
(***************************************************************************)
EXTENDS Integers, Sequences, FiniteSets, TLC

VARIABLES
    mode,                \* what the process runs: "push", "pull", "fixed", "out" or "call"
    \* ---- DualAudioInterface: capture state (__init__, lines 52-72)
    record_to_file,
    recording_frames,
    speech_frames,
    is_recording,
    target_duration,
    speech_seconds,
    currently_speaking,
    recording_complete,
    silence_buffer,
    \* ---- DualAudioInterface: the input callback thread
    pcCb,                \* "idle", "locked" (line 242), "parent" (line 287)
    in_data,             \* the chunk the running callback was given
    nDelivered,          \* chunks the driver has delivered so far
    nForwarded,          \* calls made to the parent's _in_callback
    forwarded,           \* the chunk the parent's _in_callback was given last
    progress,            \* what _display_progress showed last
    \* ---- DualAudioInterface: the thread calling start/stop_recording
    pcStop,              \* "idle" or "save" (between line 90 and line 94)
    nStarts,
    nStops,
    frame_count,         \* the local frame_count of a running stop_recording (line 90)
    written,             \* file writes of _save_recording: <<filename, payload>>
    stop_result,         \* what the last stop_recording returned
    \* ---- SmartAudioRecorder: configuration and the locals of record()
    sample_rate,
    chunk,
    frames,
    speech_frame_count,  \* the local speech_frames of record(), a count
    total_frames,
    data,                \* the chunk read at line 144
    speech_buffer,
    pending_silence,     \* the local silence_buffer of record()
    currently_recording,
    actual_speech_seconds,
    stop_flag,
    last_status,         \* what _display_progress showed last
    pcRec,               \* "loop", "read", "finish" (line 203), "save" (line 211),
                         \* "done", or "raised" when record() ended by an exception
    saved,               \* the payloads written at lines 232-238
    record_result,       \* what record() returned
    stream,              \* the input stream and PyAudio instance of record():
                         \* "open", or "closed" once closed and terminated
    \* ---- DualAudioInterface: the output path
    output_queue,        \* chunks put by output(), oldest first
    should_stop,
    pcOut,               \* _output_thread: "get", "write", "recover", "reopen", "exit"
    audio,               \* the chunk _output_thread took from the queue
    error_count,
    out_stream,          \* the handle self.out_stream refers to
    open_streams,        \* output stream handles that are open
    stream_active,       \* whether out_stream is started
    nOpened,             \* output streams opened so far
    played,              \* chunks written to the output stream, in order
    nEnqueued,
    pcInt,               \* interrupt(): "idle", "drain", "restart", "start"
    nInterrupts,
    \* ---- history
    silence_run,         \* silence chunks the gate has processed since its last speech chunk
    enqueued_at_call,    \* nEnqueued when the running interrupt() was called
    cutoff,              \* nEnqueued at the call of the last interrupt() that returned
    played_at_return,    \* Len(played) when that interrupt() returned
    last_stop,           \* the last stop_recording that returned: the session it
                         \* ended, the chunks captured then and what it returned
    \* ---- the file system
    wav_file,            \* the wave file written last: its header and payload
    dir_exists,          \* whether the output directory exists
    \* ---- CallControlGUI and the call threads of VoiceCloneApp
    call_active,
    start_button,        \* the state of the button: "normal" or "disabled"
    hangup_button,
    pcCall,              \* each start_call thread: "none", "start" (line 269),
                         \* "converse" (line 299), "finally" (line 311),
                         \* "process" (line 314) or "done"
    after_calls,         \* _update_call_ended calls queued by root.after
    nPresses,            \* button presses so far
    nHangups,            \* hangup_call threads started so far
    session_interface,   \* the interface the Conversation was built with
    mic_chunks           \* chunks the microphone produced since start_recording

pushVars == <<record_to_file, recording_frames, speech_frames, is_recording,
              target_duration, speech_seconds, currently_speaking,
              recording_complete, silence_buffer, pcCb, in_data, nDelivered,
              nForwarded, forwarded, progress, pcStop, nStarts, nStops, frame_count,
              written, stop_result>>

pullVars == <<sample_rate, chunk, frames, speech_frame_count, total_frames,
              data, speech_buffer, pending_silence, currently_recording,
              actual_speech_seconds, stop_flag, last_status, pcRec, saved,
              record_result,
             stream>>

outVars == <<output_queue, should_stop, pcOut, audio, error_count,
             out_stream, open_streams, stream_active, nOpened, played,
             nEnqueued, pcInt, nInterrupts, enqueued_at_call, cutoff,
             played_at_return>>

fsVars == <<wav_file, dir_exists>>

guiVars == <<call_active, start_button, hangup_button, pcCall, after_calls,
             nPresses, nHangups, session_interface, mic_chunks>>

vars == <<mode, pushVars, pullVars, outVars, silence_run, last_stop, fsVars,
          guiVars>>

\* the capture side of DualAudioInterface runs in a recording process and in
\* a call; its output side runs in a playback process and in a call
CaptureRuns == mode \in {"push", "call"}

OutputRuns == mode \in {"out", "call"}

----------------------------------------------------------------------------
(* Bounds of the model *)

MaxChunks == 8          \* chunks the driver delivers in one run
FramesPerChunk == 2     \* samples in one chunk of the model
TargetChunks == 2       \* the short target: this many chunk durations
MaxStarts == 1          \* start_recording calls in one run
MaxStops == 1           \* stop_recording calls in one run
PullTargetTenths == 10  \* target_duration of record(), in tenths of a second
MaxTotalTenths == 20    \* max_total_time of record(), in tenths of a second
MaxEnqueue == 5         \* chunks the conversation puts on the output queue
MaxInterrupts == 1      \* interrupt() calls in one run
CallQueued == 2         \* chunks of agent audio queued during the short call
SessionStarts == 2      \* start_recording calls in a run with a second session
SessionChunks == 3      \* chunks delivered in a run with repeated stop_recording
SessionStops == 2       \* stop_recording calls in such a run
MaxPresses == 4         \* presses of the two buttons of the GUI in one run
MaxMicChunks == 2       \* chunks the microphone produces during one call
FixedDurationTenths == 10   \* duration of AudioRecorder, in tenths of a second

None == "None"

\* no chunk yet
NoChunk == [id |-> 0, samples |-> <<>>]

----------------------------------------------------------------------------
(* Audio chunks and the level meter *)

silence_threshold == 500

BytesPerSecond == 16000 * 2

\* A chunk whose RMS level is exactly the threshold, and one just above it.
QuietSamples == [i \in 1..FramesPerChunk |-> 500]
LoudSamples == [i \in 1..FramesPerChunk |-> IF i = 1 THEN 0 - 501 ELSE 501]
SampleSeqs == {QuietSamples, LoudSamples}

ByteLen(bytes) == 2 * Len(bytes.samples)

RECURSIVE SumSquares(_)
SumSquares(shorts) ==
    IF shorts = <<>> THEN 0
    ELSE Head(shorts) * Head(shorts) + SumSquares(Tail(shorts))

\* rms > silence_threshold with rms = (sum_squares / count) ** 0.5, compared
\* in squares; a chunk with no sample raises in the division and
\* _get_audio_level returns 0.
is_speech_any(bytes) == ByteLen(bytes) \div 2 > 0

is_speech_ge(bytes) ==
    LET count == ByteLen(bytes) \div 2
    IN  IF count = 0 THEN FALSE
        ELSE SumSquares(bytes.samples) >= silence_threshold * silence_threshold * count

is_speech(bytes) ==
    LET count == ByteLen(bytes) \div 2
    IN  IF count = 0 THEN FALSE
        ELSE SumSquares(bytes.samples) > silence_threshold * silence_threshold * count

----------------------------------------------------------------------------
(* DualAudioInterface: the gate of _in_callback *)

\* int(16000 / 4000 * self.silence_debounce) with silence_debounce = 1.5
silence_buffer_max == (16000 * 15) \div (4000 * 10)

\* lines 251-252: the pending silence run is kept only while Speaking
FlushPending_replace(speech, pending, speaking) ==
    IF pending # <<>> /\ speaking THEN pending ELSE speech

FlushPending_never(speech, pending, speaking) == speech

FlushPending(speech, pending, speaking) ==
    IF pending # <<>> /\ speaking THEN speech \o pending ELSE speech

\* line 257
SpeechSeconds(speech, bytes) == Len(speech) * ByteLen(bytes)

\* line 262
TargetReached_gt(seconds, target) == seconds > target

TargetReached(seconds, target) == seconds >= target

\* line 276: the run that ended the speech is dropped
AfterDebounce_keep(pending) == pending

AfterDebounce_last(pending) == <<pending[Len(pending)]>>

AfterDebounce(pending) == <<>>

\* line 274
DebounceExceeded_gt(pending) == Len(pending) > silence_buffer_max

DebounceExceeded_late(pending) == Len(pending) >= silence_buffer_max + 1

DebounceExceeded(pending) == Len(pending) >= silence_buffer_max

----------------------------------------------------------------------------
(* The wave file: wave.open(path, 'wb'), the three header setters,         *)
(* writeframes(b''.join(chunks)) and close()                               *)

channels == 1            \* self.channels, and the 1 of _save_recording
sample_width == 2        \* get_sample_size(paInt16)
push_rate == 16000       \* the rate of the conversation's streams

NoFile == [nchannels |-> 0, sampwidth |-> 0, framerate |-> 0, nframes |-> 0,
           payload |-> <<>>]

\* b''.join(chunks), as 16-bit samples
RECURSIVE Join(_)
Join(chunks) ==
    IF chunks = <<>> THEN <<>>
    ELSE Head(chunks).samples \o Join(Tail(chunks))

\* a mutation of wave_write: the chunks are written last first
RECURSIVE Join_reversed(_)
Join_reversed(chunks) ==
    IF chunks = <<>> THEN <<>>
    ELSE Join_reversed(Tail(chunks)) \o Head(chunks).samples

wave_write_reversed(nchannels, sampwidth, framerate, chunks) ==
    [nchannels |-> nchannels, sampwidth |-> sampwidth, framerate |-> framerate,
     nframes |-> (2 * Len(Join_reversed(chunks))) \div (sampwidth * nchannels),
     payload |-> Join_reversed(chunks)]

\* the file after close(): the header holds the parameters set and the
\* number of frames, bytes written \div (sampwidth * nchannels)
wave_write(nchannels, sampwidth, framerate, chunks) ==
    [nchannels |-> nchannels, sampwidth |-> sampwidth, framerate |-> framerate,
     nframes |-> (2 * Len(Join(chunks))) \div (sampwidth * nchannels),
     payload |-> Join(chunks)]

\* reading a file back: getparams() and readframes(getnframes()), which
\* returns nframes * nchannels samples of the payload
wave_read(file) ==
    [nchannels |-> file.nchannels, sampwidth |-> file.sampwidth,
     framerate |-> file.framerate,
     samples |-> SubSeq(file.payload, 1,
                        (file.nframes * file.nchannels * file.sampwidth) \div 2)]

----------------------------------------------------------------------------
(* DualAudioInterface: construction and the recording session *)

Filenames == {"call.wav"}

\* target_duration as the constructor is given it: the short target of the
\* scenarios, or the default of 20 seconds
Targets == {TargetChunks * FramesPerChunk * 2, 20 * BytesPerSecond}

\* the constructor, lines 42-76, called with record_to_file = filename
Constructed(filename) ==
    /\ record_to_file = filename
    /\ recording_frames = <<>>
    /\ speech_frames = <<>>
    /\ is_recording = FALSE
    /\ target_duration \in Targets
    /\ speech_seconds = 0
    /\ currently_speaking = FALSE
    /\ recording_complete = FALSE
    /\ silence_buffer = <<>>
    /\ pcCb = "idle"
    /\ in_data = NoChunk
    /\ nDelivered = 0
    /\ nForwarded = 0
    /\ forwarded = NoChunk
    /\ progress = <<>>
    /\ pcStop = "idle"
    /\ nStarts = 0
    /\ nStops = 0
    /\ frame_count = 0
    /\ written = <<>>
    /\ stop_result = None

InitPush == Constructed(None)

\* lines 75-76: the directory after the constructor, given whether it
\* existed before
DirAfterInit(before, filename) == before \/ filename # None

\* start_recording, lines 79-84; calls is the number of start_recording
\* calls the run makes
StartRecordingCall(filename, calls) ==
    /\ CaptureRuns
    /\ pcStop = "idle"
    /\ nStarts < calls
    /\ nStarts' = nStarts + 1
    /\ record_to_file' = filename
    /\ recording_frames' = <<>>
    /\ is_recording' = TRUE
    /\ UNCHANGED <<mode, guiVars, fsVars, pullVars, outVars, last_stop,
                   speech_frames, target_duration, speech_seconds,
                   currently_speaking, recording_complete, silence_buffer,
                   pcCb, in_data, nDelivered, nForwarded, forwarded,
                   progress, pcStop, nStops, frame_count, written, stop_result,
                   silence_run>>

start_recording(filename) == StartRecordingCall(filename, MaxStarts)

StartRecording == \E filename \in Filenames : start_recording(filename)

\* stop_recording, lines 88-90: the part under recording_lock; calls is
\* the number of stop_recording calls the run makes
StopRecordingCall(calls) ==
    /\ CaptureRuns
    /\ pcStop = "idle"
    /\ nStops < calls
    /\ nStops' = nStops + 1
    /\ frame_count' = Len(recording_frames)
    /\ is_recording' = FALSE
    /\ pcStop' = "save"
    /\ UNCHANGED <<mode, guiVars, fsVars, pullVars, outVars, last_stop,
                   record_to_file, recording_frames, speech_frames,
                   target_duration, speech_seconds, currently_speaking,
                   recording_complete, silence_buffer, pcCb, in_data,
                   nDelivered, nForwarded, forwarded, progress, nStarts,
                   written, stop_result, silence_run>>

\* a mutation of ShouldSave: only a session with no file yet is saved
ShouldSave_first(recorded, filename) ==
    recorded # <<>> /\ filename # None /\ written = <<>>

\* line 94: if self.recording_frames and self.record_to_file
ShouldSave(recorded, filename) == recorded # <<>> /\ filename # None

\* the file that wave.open(path, 'wb') and the three setters leave when
\* writeframes raises: the old content is gone and no frame is in it
wave_partial == wave_write(1, sample_width, push_rate, <<>>)

\* stop_recording, lines 94-98, with _save_recording (lines 175-193).
\* failed_at is "none", or the call of _save_recording that raises: "open"
\* (wave.open, as it does in a missing directory) or "write" (writeframes)
SaveRecording(failed_at) ==
    /\ CaptureRuns
    /\ pcStop = "save"
    /\ pcStop' = "idle"
    /\ failed_at # "none" => ShouldSave(recording_frames, record_to_file)
    /\ (ShouldSave(recording_frames, record_to_file) /\ failed_at # "open")
           => dir_exists
    /\ IF ShouldSave(recording_frames, record_to_file) /\ failed_at = "none"
       THEN /\ written' = Append(written, <<record_to_file, recording_frames>>)
            /\ stop_result' = record_to_file
            /\ wav_file' = wave_write(1, sample_width, push_rate,
                                      recording_frames)
       ELSE \* nothing to save, or the except of lines 191-193 returns None
            /\ written' = written
            /\ stop_result' = None
            /\ wav_file' = IF failed_at = "write" THEN wave_partial
                           ELSE wav_file
    /\ dir_exists' = dir_exists
    /\ frame_count' = 0          \* stop_recording returns: the local is gone
    /\ last_stop' = [done |-> TRUE, starts |-> nStarts,
                     recorded |-> Len(recording_frames),
                     result |-> stop_result']
    /\ UNCHANGED <<mode, guiVars, pullVars, outVars,
                   record_to_file, recording_frames, speech_frames,
                   is_recording, target_duration, speech_seconds,
                   currently_speaking, recording_complete, silence_buffer,
                   pcCb, in_data, nDelivered, nForwarded, forwarded,
                   progress, nStarts, nStops, silence_run>>

\* the save of a session whose file system takes the whole file: it fails
\* only where the directory is missing
StopRecordingSave ==
    SaveRecording(IF ShouldSave(recording_frames, record_to_file)
                     /\ ~dir_exists
                  THEN "open" ELSE "none")

StopRecordingLocked == StopRecordingCall(MaxStops)

----------------------------------------------------------------------------
(* DualAudioInterface._in_callback *)

\* line 241: the callback is entered with a chunk and tests the flags,
\* outside the lock
CallbackEnter(bytes) ==
    /\ CaptureRuns
    /\ pcCb = "idle"
    /\ nDelivered < MaxChunks
    /\ bytes.id = nDelivered + 1
    /\ nDelivered' = nDelivered + 1
    /\ in_data' = bytes
    /\ pcCb' = IF is_recording /\ ~recording_complete THEN "locked" ELSE "parent"
    /\ UNCHANGED <<mode, guiVars, fsVars, pullVars, outVars, last_stop,
                   record_to_file, recording_frames, speech_frames,
                   is_recording, target_duration, speech_seconds,
                   currently_speaking, recording_complete, silence_buffer,
                   nForwarded, forwarded, progress, pcStop, nStarts, nStops, frame_count,
                   written, stop_result, silence_run>>

CbEnter ==
    \E s \in SampleSeqs :
        CallbackEnter([id |-> nDelivered + 1, samples |-> s])

\* line 244: self.recording_frames.append(in_data), for every chunk
Captured_speech_only(recorded, bytes) ==
    IF is_speech(bytes) THEN Append(recorded, bytes) ELSE recorded

Captured(recorded, bytes) == Append(recorded, bytes)

RECURSIVE TotalBytes(_)
TotalBytes(recorded) ==
    IF recorded = <<>> THEN 0
    ELSE ByteLen(Head(recorded)) + TotalBytes(Tail(recorded))

\* get_recording_duration, lines 290-303, counted in units of 1/32000 s:
\* total_bytes / bytes_per_sample / samples_per_second with 2 and 16000
get_recording_duration ==
    IF recording_frames = <<>> THEN 0
    ELSE (TotalBytes(recording_frames) * 32000) \div (2 * 16000)

\* lines 242-283: the block under recording_lock.  shown says whether the
\* progress display of this chunk returns (TRUE) or raises (FALSE); when it
\* raises, the exception leaves the callback at that line.
CallbackLocked(shown) ==
    /\ CaptureRuns
    /\ pcCb = "locked"
    /\ recording_frames' = Captured(recording_frames, in_data)
    /\ IF is_speech(in_data)
       THEN LET speech == Append(FlushPending(speech_frames, silence_buffer,
                                              currently_speaking), in_data)
                seconds == SpeechSeconds(speech, in_data)
            IN  /\ speech_frames' = speech
                /\ silence_buffer' = <<>>
                /\ speech_seconds' = seconds
                /\ currently_speaking' = TRUE
                /\ progress' = IF shown THEN <<seconds, TRUE>> ELSE progress
                /\ recording_complete' =
                       IF shown /\ TargetReached(seconds, target_duration)
                       THEN TRUE ELSE recording_complete
       ELSE IF currently_speaking
            THEN LET pending == Append(silence_buffer, in_data)
                 IN  /\ IF DebounceExceeded(pending)
                        THEN /\ currently_speaking' = FALSE
                             /\ silence_buffer' = AfterDebounce(pending)
                             /\ progress' = IF shown THEN <<speech_seconds, FALSE>>
                                            ELSE progress
                        ELSE /\ currently_speaking' = TRUE
                             /\ silence_buffer' = pending
                             /\ progress' = IF shown THEN <<speech_seconds, TRUE>>
                                            ELSE progress
                     /\ UNCHANGED <<speech_frames, speech_seconds,
                                    recording_complete>>
            ELSE /\ progress' = IF shown THEN <<speech_seconds, FALSE>>
                                ELSE progress
                 /\ UNCHANGED <<speech_frames, speech_seconds,
                                recording_complete, currently_speaking,
                                silence_buffer>>
    /\ silence_run' = IF is_speech(in_data) THEN 0 ELSE silence_run + 1
    /\ pcCb' = IF shown THEN "parent" ELSE "idle"
    /\ UNCHANGED <<mode, guiVars, fsVars, pullVars, outVars, last_stop,
                   record_to_file, is_recording, target_duration, in_data,
                   nDelivered, nForwarded, forwarded, pcStop, nStarts, nStops, frame_count,
                   written, stop_result>>

CbLocked == CallbackLocked(TRUE)

\* lines 287-288: the chunk is passed to the parent's callback
CbParent ==
    /\ CaptureRuns
    /\ pcCb = "parent"
    /\ nForwarded' = nForwarded + 1
    /\ forwarded' = in_data
    /\ pcCb' = "idle"
    /\ UNCHANGED <<mode, guiVars, fsVars, pullVars, outVars, last_stop,
                   record_to_file, recording_frames, speech_frames,
                   is_recording, target_duration, speech_seconds,
                   currently_speaking, recording_complete, silence_buffer,
                   in_data, nDelivered, progress, pcStop, nStarts, nStops, frame_count,
                   written, stop_result, silence_run>>

----------------------------------------------------------------------------
(* SmartAudioRecorder: configuration *)

\* the rates of the model give 4 and 7 chunks a second with the default
\* chunk of 1024 frames
SampleRates == {4 * 1024, 7 * 1024}

\* a rate that gives 4.5 chunks a second: sample_rate / chunk is not an
\* integer, as with the defaults 44100 / 1024
FractionalRates == {4608}

min_speech_chunk_tenths == 3      \* self.min_speech_chunk = 0.3
silence_debounce_tenths == 15     \* self.silence_debounce = 1.5

\* int(self.sample_rate / self.chunk * t) for t given in tenths of a second
IntOfRate(tenths) == (sample_rate * tenths) \div (chunk * 10)

target_frames == IntOfRate(PullTargetTenths)
max_frames_more == IntOfRate(MaxTotalTenths) + 1

max_frames == IntOfRate(MaxTotalTenths)
speech_buffer_duration == IntOfRate(min_speech_chunk_tenths)
pull_silence_buffer_max == IntOfRate(silence_debounce_tenths)

\* record() up to line 135, for a recorder built with one of the rates
InitPullAt(rates) ==
    /\ sample_rate \in rates
    /\ chunk = 1024
    /\ frames = <<>>
    /\ speech_frame_count = 0
    /\ total_frames = 0
    /\ data = NoChunk
    /\ speech_buffer = <<>>
    /\ pending_silence = <<>>
    /\ currently_recording = FALSE
    /\ actual_speech_seconds = 0
    /\ stop_flag = FALSE
    /\ last_status = None
    /\ pcRec = "loop"
    /\ saved = <<>>
    /\ record_result = None
    /\ stream = "open"

InitPull == InitPullAt(SampleRates)

\* Before record() is called, and in a process that does not use the recorder
IdlePull ==
    /\ sample_rate = 44100
    /\ chunk = 1024
    /\ frames = <<>>
    /\ speech_frame_count = 0
    /\ total_frames = 0
    /\ data = NoChunk
    /\ speech_buffer = <<>>
    /\ pending_silence = <<>>
    /\ currently_recording = FALSE
    /\ actual_speech_seconds = 0
    /\ stop_flag = FALSE
    /\ last_status = None
    /\ pcRec = "done"
    /\ saved = <<>>
    /\ record_result = None
    /\ stream = "closed"

----------------------------------------------------------------------------
(* SmartAudioRecorder.record *)

\* lines 152-156: the chunk is appended, then the pending silence run
PullBuffer_no_flush(buffer, read, pending, recording) == Append(buffer, read)

PullBuffer(buffer, read, pending, recording) ==
    IF pending # <<>> /\ recording
    THEN Append(buffer, read) \o pending
    ELSE Append(buffer, read)

\* line 160
BufferLongEnough_first(buffer) == Len(buffer) >= 1

BufferLongEnough(buffer) == Len(buffer) >= speech_buffer_duration

\* line 179
PullDebounceExceeded_gt(pending) == Len(pending) > pull_silence_buffer_max

PullDebounceExceeded(pending) == Len(pending) >= pull_silence_buffer_max

\* lines 138-142: the loop condition and the test of stop_flag
LoopTest ==
    /\ mode = "pull"
    /\ pcRec = "loop"
    /\ pcRec' = IF speech_frame_count < target_frames
                   /\ total_frames < max_frames /\ ~stop_flag
                THEN "read" ELSE "finish"
    /\ UNCHANGED <<mode, guiVars, fsVars, pushVars, outVars, last_stop, stream,
                   sample_rate, chunk, frames, speech_frame_count,
                   total_frames, data, speech_buffer, pending_silence,
                   currently_recording, actual_speech_seconds, stop_flag,
                   last_status, saved, record_result, silence_run>>

\* lines 144-201: one chunk is read and processed
ProcessChunk(read) ==
    /\ mode = "pull"
    /\ pcRec = "read"
    /\ read.id = total_frames + 1
    /\ data' = read
    /\ total_frames' = total_frames + 1
    /\ IF is_speech(read)
       THEN LET buffer == PullBuffer(speech_buffer, read, pending_silence,
                                     currently_recording)
            IN  /\ pending_silence' = <<>>
                /\ IF BufferLongEnough(buffer)
                   THEN /\ frames' = frames \o buffer
                        /\ speech_frame_count' = speech_frame_count + Len(buffer)
                        /\ speech_buffer' = <<>>
                        /\ currently_recording' = TRUE
                        /\ actual_speech_seconds' =
                               (speech_frame_count + Len(buffer)) * chunk
                        /\ last_status' = "RECORDING"
                   ELSE /\ speech_buffer' = buffer
                        /\ UNCHANGED <<frames, speech_frame_count,
                                       currently_recording,
                                       actual_speech_seconds, last_status>>
       ELSE IF currently_recording
            THEN LET pending == Append(pending_silence, read)
                 IN  /\ IF PullDebounceExceeded(pending)
                        THEN /\ currently_recording' = FALSE
                             /\ pending_silence' = <<>>
                             /\ speech_buffer' = <<>>
                             /\ last_status' = "WAITING"
                        ELSE /\ currently_recording' = TRUE
                             /\ pending_silence' = pending
                             /\ speech_buffer' = speech_buffer
                             /\ last_status' = "RECORDING"
                     /\ UNCHANGED <<frames, speech_frame_count,
                                    actual_speech_seconds>>
            ELSE /\ pending_silence' = <<>>
                 /\ speech_buffer' = <<>>
                 /\ last_status' = "WAITING"
                 /\ UNCHANGED <<frames, speech_frame_count,
                                currently_recording, actual_speech_seconds>>
    /\ silence_run' = IF is_speech(read) THEN 0 ELSE silence_run + 1
    /\ pcRec' = "loop"
    /\ UNCHANGED <<mode, guiVars, fsVars, pushVars, outVars, last_stop, stream,
                   sample_rate, chunk, stop_flag, saved, record_result>>

ReadChunk ==
    \E s \in SampleSeqs :
        ProcessChunk([id |-> total_frames + 1, samples |-> s])

\* stop_flag.set() by the thread that owns the flag
SetStopFlag ==
    /\ mode = "pull"
    /\ pcRec \in {"loop", "read"}
    /\ ~stop_flag
    /\ stop_flag' = TRUE
    /\ UNCHANGED <<mode, guiVars, fsVars, pushVars, outVars, last_stop, stream,
                   sample_rate, chunk, frames, speech_frame_count,
                   total_frames, data, speech_buffer, pending_silence,
                   currently_recording, actual_speech_seconds, last_status,
                   pcRec, saved, record_result, silence_run>>

\* a mutation of WithRemaining: the buffered run is counted but not kept
WithRemaining_dropped(kept, buffer) == kept

\* line 205: frames.extend(speech_buffer)
WithRemaining(kept, buffer) == kept \o buffer

\* lines 203-206: what is left in speech_buffer is kept
AddRemaining ==
    /\ mode = "pull"
    /\ pcRec = "finish"
    /\ frames' = WithRemaining(frames, speech_buffer)
    /\ speech_frame_count' = speech_frame_count + Len(speech_buffer)
    /\ pcRec' = "save"
    /\ UNCHANGED <<mode, guiVars, fsVars, pushVars, outVars, last_stop, stream,
                   sample_rate, chunk, total_frames, data, speech_buffer,
                   pending_silence, currently_recording,
                   actual_speech_seconds, stop_flag, last_status, saved,
                   record_result, silence_run>>

\* lines 208-209: Ctrl-C during the loop skips lines 203-206
KeyboardInterrupt ==
    /\ mode = "pull"
    /\ pcRec \in {"loop", "read"}
    /\ pcRec' = "save"
    /\ UNCHANGED <<mode, guiVars, fsVars, pushVars, outVars, last_stop, stream,
                   sample_rate, chunk, frames, speech_frame_count,
                   total_frames, data, speech_buffer, pending_silence,
                   currently_recording, actual_speech_seconds, stop_flag,
                   last_status, saved, record_result, silence_run>>

\* lines 211-248
Finalize ==
    /\ mode = "pull"
    /\ pcRec = "save"
    /\ actual_speech_seconds' = speech_frame_count * chunk
    /\ IF frames # <<>>
       THEN /\ saved' = Append(saved, frames)
            /\ record_result' = "smart_recorded_voice.wav"
            /\ wav_file' = wave_write(channels, sample_width, sample_rate,
                                      frames)
       ELSE /\ saved' = saved
            /\ record_result' = None
            /\ wav_file' = wav_file
    /\ dir_exists' = dir_exists
    /\ stream' = "closed"
    /\ pcRec' = "done"
    /\ UNCHANGED <<mode, guiVars, pushVars, outVars, last_stop,
                   sample_rate, chunk, frames, speech_frame_count,
                   total_frames, data, speech_buffer, pending_silence,
                   currently_recording, stop_flag, last_status, silence_run>>

\* line 144: stream.read raises an error of the device (an OSError, not a
\* KeyboardInterrupt); nothing in record() catches it
ReadRaises ==
    /\ mode = "pull"
    /\ pcRec = "read"
    /\ pcRec' = "raised"
    /\ UNCHANGED <<mode, guiVars, fsVars, pushVars, outVars, last_stop, stream,
                   sample_rate, chunk, frames, speech_frame_count,
                   total_frames, data, speech_buffer, pending_silence,
                   currently_recording, actual_speech_seconds, stop_flag,
                   last_status, saved, record_result, silence_run>>

----------------------------------------------------------------------------
(* AudioRecorder.record (src/audio_recorder.py): the recorder of a fixed   *)
(* duration.  Its locals frames, data and stream are the variables of the  *)
(* same names; total_frames is its loop index i.                           *)

\* line 115
total_chunks == IntOfRate(FixedDurationTenths)

InitFixed ==
    /\ sample_rate \in SampleRates
    /\ chunk = 1024
    /\ frames = <<>>
    /\ speech_frame_count = 0
    /\ total_frames = 0
    /\ data = NoChunk
    /\ speech_buffer = <<>>
    /\ pending_silence = <<>>
    /\ currently_recording = FALSE
    /\ actual_speech_seconds = 0
    /\ stop_flag = FALSE
    /\ last_status = None
    /\ pcRec = "loop"
    /\ saved = <<>>
    /\ record_result = None
    /\ stream = "open"

\* lines 118-120: stream.read(self.chunk) with exception_on_overflow left at
\* its default; a read that overflowed raises OSError, which nothing catches
RecordRead(read, overflowed) ==
    /\ mode = "fixed"
    /\ pcRec = "loop"
    /\ total_frames < total_chunks
    /\ read.id = total_frames + 1
    /\ IF overflowed
       THEN /\ pcRec' = "raised"
            /\ UNCHANGED <<data, frames, total_frames>>
       ELSE /\ data' = read
            /\ frames' = Append(frames, read)
            /\ total_frames' = total_frames + 1
            /\ pcRec' = "loop"
    /\ UNCHANGED <<mode, guiVars, fsVars, pushVars, outVars, last_stop, stream,
                   sample_rate, chunk, speech_frame_count, speech_buffer,
                   pending_silence, currently_recording,
                   actual_speech_seconds, stop_flag, last_status, saved,
                   record_result, silence_run>>

FixedRead ==
    \E s \in SampleSeqs, overflowed \in BOOLEAN :
        RecordRead([id |-> total_frames + 1, samples |-> s], overflowed)

\* lines 130-151: the stream is closed and the file written
RecordSave ==
    /\ mode = "fixed"
    /\ pcRec = "loop"
    /\ total_frames >= total_chunks
    /\ stream' = "closed"
    /\ saved' = Append(saved, frames)
    /\ record_result' = "recorded_voice.wav"
    /\ wav_file' = wave_write(channels, sample_width, sample_rate, frames)
    /\ dir_exists' = dir_exists
    /\ pcRec' = "done"
    /\ UNCHANGED <<mode, guiVars, pushVars, outVars, last_stop,
                   sample_rate, chunk, frames, speech_frame_count,
                   total_frames, data, speech_buffer, pending_silence,
                   currently_recording, actual_speech_seconds, stop_flag,
                   last_status, silence_run>>

----------------------------------------------------------------------------
(* DualAudioInterface: the output path (_output_thread, interrupt) *)

max_consecutive_errors == 5

\* after the parent's start(): one output stream, open and started
InitOut ==
    /\ output_queue = <<>>
    /\ should_stop = FALSE
    /\ pcOut = "get"
    /\ audio = 0
    /\ error_count = 0
    /\ out_stream = 1
    /\ open_streams = {1}
    /\ stream_active = TRUE
    /\ nOpened = 1
    /\ played = <<>>
    /\ nEnqueued = 0
    /\ pcInt = "idle"
    /\ nInterrupts = 0
    /\ enqueued_at_call = 0
    /\ cutoff = 0
    /\ played_at_return = 0

\* a process that plays nothing: the output thread is not running
IdleOut ==
    /\ output_queue = <<>>
    /\ should_stop = TRUE
    /\ pcOut = "exit"
    /\ audio = 0
    /\ error_count = 0
    /\ out_stream = 1
    /\ open_streams = {1}
    /\ stream_active = TRUE
    /\ nOpened = 1
    /\ played = <<>>
    /\ nEnqueued = 0
    /\ pcInt = "idle"
    /\ nInterrupts = 0
    /\ enqueued_at_call = 0
    /\ cutoff = 0
    /\ played_at_return = 0

\* the conversation puts a chunk of synthesized audio on the queue
EnqueueUpTo(limit) ==
    /\ OutputRuns
    /\ ~should_stop
    /\ nEnqueued < limit
    /\ nEnqueued' = nEnqueued + 1
    /\ output_queue' = Append(output_queue, nEnqueued + 1)
    /\ UNCHANGED <<mode, guiVars, fsVars, pushVars, pullVars, silence_run, last_stop, should_stop, pcOut,
                   audio, error_count, out_stream, open_streams,
                   stream_active, nOpened, played, pcInt, nInterrupts,
                   enqueued_at_call, cutoff, played_at_return>>

Enqueue == EnqueueUpTo(MaxEnqueue)

\* the session ends: should_stop is set
SetShouldStop ==
    /\ OutputRuns
    /\ ~should_stop
    /\ should_stop' = TRUE
    /\ UNCHANGED <<mode, guiVars, fsVars, pushVars, pullVars, silence_run, last_stop, output_queue, pcOut,
                   audio, error_count, out_stream, open_streams,
                   stream_active, nOpened, played, nEnqueued, pcInt,
                   nInterrupts, enqueued_at_call, cutoff, played_at_return>>

\* lines 106-108: the loop test and a get() that returns a chunk (a get()
\* that times out on an empty queue changes nothing)
OutGet ==
    /\ OutputRuns
    /\ pcOut = "get"
    /\ IF should_stop
       THEN /\ pcOut' = "exit"
            /\ UNCHANGED <<output_queue, audio>>
       ELSE /\ output_queue # <<>>
            /\ audio' = Head(output_queue)
            /\ output_queue' = Tail(output_queue)
            /\ pcOut' = "write"
    /\ UNCHANGED <<mode, guiVars, fsVars, pushVars, pullVars, silence_run, last_stop, should_stop,
                   error_count, out_stream, open_streams, stream_active,
                   nOpened, played, nEnqueued, pcInt, nInterrupts,
                   enqueued_at_call, cutoff, played_at_return>>

\* a write can succeed only on an open, started stream
CanWrite == out_stream \in open_streams /\ stream_active

\* line 113: if error_count >= max_consecutive_errors
RecoveryDue_any(count) == count >= 1

RecoveryDue(count) == count >= max_consecutive_errors

\* lines 109-116: out_stream.write(audio); ok is FALSE when it raises OSError
OutputWrite(ok) ==
    /\ OutputRuns
    /\ pcOut = "write"
    /\ ok => CanWrite
    /\ IF ok
       THEN /\ played' = Append(played, audio)
            /\ error_count' = 0
            /\ pcOut' = "get"
       ELSE /\ played' = played
            /\ error_count' = error_count + 1
            /\ pcOut' = IF RecoveryDue(error_count + 1)
                        THEN "recover" ELSE "get"
    /\ UNCHANGED <<mode, guiVars, fsVars, pushVars, pullVars, silence_run, last_stop, output_queue,
                   should_stop, audio, out_stream, open_streams,
                   stream_active, nOpened, nEnqueued, pcInt, nInterrupts,
                   enqueued_at_call, cutoff, played_at_return>>

OutWrite == \E ok \in BOOLEAN : OutputWrite(ok)

\* lines 117-120: the recovery stops and closes the output stream.
\* failed_at is "none", or "stop" when stop_stream() raises, which it does
\* on a stream that is already closed
OutputRecover(failed_at) ==
    /\ OutputRuns
    /\ pcOut = "recover"
    /\ failed_at = "none" => out_stream \in open_streams
    /\ IF failed_at = "none"
       THEN /\ open_streams' = open_streams \ {out_stream}
            /\ stream_active' = FALSE
            /\ pcOut' = "reopen"
       ELSE /\ pcOut' = "exit"
            /\ UNCHANGED <<open_streams, stream_active>>
    /\ UNCHANGED <<mode, guiVars, fsVars, pushVars, pullVars, silence_run, last_stop, output_queue,
                   should_stop, audio, error_count, out_stream, nOpened,
                   played, nEnqueued, pcInt, nInterrupts,
                   enqueued_at_call, cutoff, played_at_return>>

OutRecover == \E failed_at \in {"none", "stop"} : OutputRecover(failed_at)

\* lines 121-133: self.out_stream = self.p.open(...); ok is FALSE when
\* p.open raises and the thread leaves its loop
OutputReopen(ok) ==
    /\ OutputRuns
    /\ pcOut = "reopen"
    /\ IF ok
       THEN /\ open_streams' = open_streams \cup {nOpened + 1}
            /\ out_stream' = nOpened + 1
            /\ nOpened' = nOpened + 1
            /\ stream_active' = TRUE
            /\ error_count' = 0
            /\ pcOut' = "get"
       ELSE /\ pcOut' = "exit"
            /\ UNCHANGED <<open_streams, out_stream, nOpened,
                           stream_active, error_count>>
    /\ UNCHANGED <<mode, guiVars, fsVars, pushVars, pullVars, silence_run, last_stop, output_queue,
                   should_stop, audio, played, nEnqueued, pcInt, nInterrupts,
                   enqueued_at_call, cutoff, played_at_return>>

OutReopen == \E ok \in BOOLEAN : OutputReopen(ok)

\* interrupt() is called
InterruptCall ==
    /\ OutputRuns
    /\ pcInt = "idle"
    /\ nInterrupts < MaxInterrupts
    /\ nInterrupts' = nInterrupts + 1
    /\ enqueued_at_call' = nEnqueued
    /\ pcInt' = "drain"
    /\ UNCHANGED <<mode, guiVars, fsVars, pushVars, pullVars, silence_run, last_stop, output_queue,
                   should_stop, pcOut, audio, error_count, out_stream,
                   open_streams, stream_active, nOpened, played, nEnqueued,
                   cutoff, played_at_return>>

\* lines 144-148: one turn of the loop that empties the queue
InterruptDrain ==
    /\ OutputRuns
    /\ pcInt = "drain"
    /\ IF output_queue # <<>>
       THEN /\ output_queue' = Tail(output_queue)
            /\ pcInt' = "drain"
       ELSE /\ output_queue' = output_queue
            /\ pcInt' = "restart"
    /\ UNCHANGED <<mode, guiVars, fsVars, pushVars, pullVars, silence_run, last_stop, should_stop, pcOut,
                   audio, error_count, out_stream, open_streams,
                   stream_active, nOpened, played, nEnqueued, nInterrupts,
                   enqueued_at_call, cutoff, played_at_return>>

\* interrupt() returns
InterruptReturns ==
    /\ pcInt' = "idle"
    /\ cutoff' = enqueued_at_call
    /\ played_at_return' = Len(played)

\* lines 162-173: the fallback closes the stream and opens a new one, or
\* one of its calls raises and the stream is left as it is
Reopened ==
    \/ /\ open_streams' = (open_streams \ {out_stream}) \cup {nOpened + 1}
       /\ out_stream' = nOpened + 1
       /\ nOpened' = nOpened + 1
       /\ stream_active' = TRUE
    \/ UNCHANGED <<open_streams, out_stream, nOpened, stream_active>>

\* lines 154-161: is_active(), stop_stream() and start_stream() raise on a
\* closed stream, and the except of line 160 takes the fallback
RestartRaises_always == TRUE

RestartRaises == out_stream \notin open_streams

\* lines 154-157: is_active() and stop_stream(); is_active() raises on a
\* closed stream, which leads to the fallback
InterruptStop ==
    /\ OutputRuns
    /\ pcInt = "restart"
    /\ IF RestartRaises
       THEN Reopened /\ InterruptReturns
       ELSE IF stream_active
            THEN /\ stream_active' = FALSE
                 /\ pcInt' = "start"
                 /\ UNCHANGED <<open_streams, out_stream, nOpened, cutoff,
                                played_at_return>>
            ELSE /\ InterruptReturns
                 /\ UNCHANGED <<open_streams, out_stream, nOpened,
                                stream_active>>
    /\ UNCHANGED <<mode, guiVars, fsVars, pushVars, pullVars, silence_run, last_stop, output_queue,
                   should_stop, pcOut, audio, error_count, played, nEnqueued,
                   nInterrupts, enqueued_at_call>>

\* line 159: start_stream(), or the fallback when it raises
InterruptStart ==
    /\ OutputRuns
    /\ pcInt = "start"
    /\ IF ~RestartRaises
       THEN /\ stream_active' = TRUE
            /\ UNCHANGED <<open_streams, out_stream, nOpened>>
       ELSE Reopened
    /\ InterruptReturns
    /\ UNCHANGED <<mode, guiVars, fsVars, pushVars, pullVars, silence_run, last_stop, output_queue,
                   should_stop, pcOut, audio, error_count, played, nEnqueued,
                   nInterrupts, enqueued_at_call>>

----------------------------------------------------------------------------
(* The capture pipeline: a process runs the call (push mode) or the        *)
(* standalone recorder (pull mode).                                        *)

IdlePush ==
    /\ InitPush
    /\ target_duration = 20 * BytesPerSecond

NoStop == [done |-> FALSE, starts |-> 0, recorded |-> 0, result |-> None]

\* the start_call threads a run can start: one for each press
Calls == 1 .. MaxPresses

\* CallControlGUI.__init__, call_gui.py lines 23-25 and 60-97, and
\* VoiceCloneApp before its first call
IdleGui ==
    /\ call_active = FALSE
    /\ start_button = "normal"
    /\ hangup_button = "disabled"
    /\ pcCall = [w \in Calls |-> "none"]
    /\ after_calls = 0
    /\ nPresses = 0
    /\ nHangups = 0
    /\ session_interface = None
    /\ mic_chunks = 0

Init ==
    /\ mode \in {"push", "pull"}
    /\ silence_run = 0
    /\ last_stop = NoStop
    /\ IdleGui
    /\ wav_file = NoFile
    /\ dir_exists = TRUE
    /\ IF mode = "push" THEN InitPush /\ IdlePull ELSE IdlePush /\ InitPull
    /\ IdleOut

Next ==
    \/ StartRecording
    \/ StopRecordingLocked
    \/ StopRecordingSave
    \/ CbEnter
    \/ CbLocked
    \/ CbParent
    \/ LoopTest
    \/ ReadChunk
    \/ SetStopFlag
    \/ AddRemaining
    \/ KeyboardInterrupt
    \/ Finalize

Spec == Init /\ [][Next]_vars

----------------------------------------------------------------------------
(* The call with a progress display that can raise: the console write or   *)
(* the GUI call of _display_progress fails, or target_duration is 0 and    *)
(* line 215 divides by zero.                                               *)

CbLockedRaises == CallbackLocked(FALSE)

InitFault ==
    /\ mode = "push"
    /\ silence_run = 0
    /\ last_stop = NoStop
    /\ IdleGui
    /\ wav_file = NoFile
    /\ dir_exists = TRUE
    /\ InitPush
    /\ IdlePull
    /\ IdleOut

NextFault ==
    \/ StartRecording
    \/ StopRecordingLocked
    \/ StopRecordingSave
    \/ CbEnter
    \/ CbLocked
    \/ CbLockedRaises
    \/ CbParent

SpecFault == InitFault /\ [][NextFault]_vars

----------------------------------------------------------------------------
(* The pull-mode recorder alone, and with a read that raises.              *)

InitRecord ==
    /\ mode = "pull"
    /\ silence_run = 0
    /\ last_stop = NoStop
    /\ IdleGui
    /\ wav_file = NoFile
    /\ dir_exists = TRUE
    /\ IdlePush
    /\ InitPull
    /\ IdleOut

NextPull ==
    \/ LoopTest
    \/ ReadChunk
    \/ SetStopFlag
    \/ AddRemaining
    \/ KeyboardInterrupt
    \/ Finalize

SpecPull == InitRecord /\ [][NextPull]_vars

\* record() where every step that can be taken is taken in the end: the
\* loop goes on and each stream.read returns
SpecPullLive == InitRecord /\ [][NextPull]_vars /\ WF_vars(NextPull)

\* record() of a recorder whose rate is not a multiple of its chunk size
InitFractional ==
    /\ mode = "pull"
    /\ silence_run = 0
    /\ last_stop = NoStop
    /\ IdleGui
    /\ wav_file = NoFile
    /\ dir_exists = TRUE
    /\ IdlePush
    /\ InitPullAt(FractionalRates)
    /\ IdleOut

SpecFractional == InitFractional /\ [][NextPull]_vars

NextPullFault ==
    \/ LoopTest
    \/ ReadChunk
    \/ ReadRaises
    \/ SetStopFlag
    \/ AddRemaining
    \/ KeyboardInterrupt
    \/ Finalize

SpecPullFault == InitRecord /\ [][NextPullFault]_vars

----------------------------------------------------------------------------
(* The recorder of a fixed duration.                                       *)

InitFixedRecord ==
    /\ mode = "fixed"
    /\ silence_run = 0
    /\ last_stop = NoStop
    /\ IdleGui
    /\ wav_file = NoFile
    /\ dir_exists = TRUE
    /\ IdlePush
    /\ InitFixed
    /\ IdleOut

NextFixed ==
    \/ FixedRead
    \/ RecordSave

SpecFixed == InitFixedRecord /\ [][NextFixed]_vars

----------------------------------------------------------------------------
(* One call in which stop_recording is called more than once: a short feed *)
(* of chunks, and SessionStops calls of stop_recording.                    *)

SessionStop == StopRecordingCall(SessionStops)

SessionChunk == nDelivered < SessionChunks /\ CbEnter

NextSession ==
    \/ StartRecording
    \/ SessionStop
    \/ StopRecordingSave
    \/ SessionChunk
    \/ CbLocked
    \/ CbParent

SpecSession == InitFault /\ [][NextSession]_vars

----------------------------------------------------------------------------
(* The short call on a file system that can fail: wave.open or writeframes *)
(* of _save_recording raises.                                              *)

StopRecordingSaveFault ==
    \E failed_at \in {"none", "open", "write"} : SaveRecording(failed_at)

NextWriteFault ==
    \/ StartRecording
    \/ SessionStop
    \/ StopRecordingSaveFault
    \/ SessionChunk
    \/ CbLocked
    \/ CbParent

SpecWriteFault == InitFault /\ [][NextWriteFault]_vars

----------------------------------------------------------------------------
(* A short call with a second recording session: SessionStarts calls of    *)
(* start_recording.                                                        *)

SessionStart ==
    \E filename \in Filenames : StartRecordingCall(filename, SessionStarts)

NextRestart ==
    \/ SessionStart
    \/ SessionStop
    \/ StopRecordingSave
    \/ SessionChunk
    \/ CbLocked
    \/ CbParent

SpecRestart == InitFault /\ [][NextRestart]_vars

----------------------------------------------------------------------------
(* A short call for every way of constructing the interface: with or       *)
(* without record_to_file, the output directory present or absent before.  *)

InitDir ==
    /\ mode = "push"
    /\ silence_run = 0
    /\ last_stop = NoStop
    /\ IdleGui
    /\ wav_file = NoFile
    /\ \E filename \in Filenames \cup {None}, before \in BOOLEAN :
           /\ Constructed(filename)
           /\ dir_exists = DirAfterInit(before, filename)
    /\ IdlePull
    /\ IdleOut

SpecDir == InitDir /\ [][NextSession]_vars

----------------------------------------------------------------------------
(* The three recorders up to their saved file: the short call, record() of *)
(* SmartAudioRecorder and record() of AudioRecorder.                       *)

InitSave ==
    /\ mode \in {"push", "pull", "fixed"}
    /\ silence_run = 0
    /\ last_stop = NoStop
    /\ IdleGui
    /\ wav_file = NoFile
    /\ dir_exists = TRUE
    /\ IF mode = "push" THEN InitPush /\ IdlePull
       ELSE IF mode = "pull" THEN IdlePush /\ InitPull
       ELSE IdlePush /\ InitFixed
    /\ IdleOut

NextSave ==
    \/ StartRecording
    \/ SessionStop
    \/ StopRecordingSave
    \/ SessionChunk
    \/ CbLocked
    \/ CbParent
    \/ LoopTest
    \/ ReadChunk
    \/ SetStopFlag
    \/ AddRemaining
    \/ KeyboardInterrupt
    \/ Finalize
    \/ FixedRead
    \/ RecordSave

SpecSave == InitSave /\ [][NextSave]_vars

----------------------------------------------------------------------------
(* The same short call with a driver that can also deliver a chunk that is *)
(* not valid 16-bit audio: the empty chunk.                                *)

Malformed(bytes) == ByteLen(bytes) = 0 \/ ByteLen(bytes) % 2 = 1

MalformedChunk ==
    /\ nDelivered < SessionChunks
    /\ CallbackEnter([id |-> nDelivered + 1, samples |-> <<>>])

NextMalformed ==
    \/ StartRecording
    \/ SessionStop
    \/ StopRecordingSave
    \/ SessionChunk
    \/ MalformedChunk
    \/ CbLocked
    \/ CbParent

SpecMalformed == InitFault /\ [][NextMalformed]_vars

----------------------------------------------------------------------------
(* The output path alone: the conversation enqueues audio, _output_thread  *)
(* plays it, another thread calls interrupt().                             *)

InitOutput ==
    /\ mode = "out"
    /\ silence_run = 0
    /\ last_stop = NoStop
    /\ IdleGui
    /\ wav_file = NoFile
    /\ dir_exists = TRUE
    /\ IdlePush
    /\ IdlePull
    /\ InitOut

NextOutput ==
    \/ Enqueue
    \/ SetShouldStop
    \/ OutGet
    \/ OutWrite
    \/ OutRecover
    \/ OutReopen
    \/ InterruptCall
    \/ InterruptDrain
    \/ InterruptStop
    \/ InterruptStart

SpecOut == InitOutput /\ [][NextOutput]_vars

----------------------------------------------------------------------------
(* A call: chunks arrive at _in_callback while the agent's audio is queued  *)
(* and interrupt() is called.  The output thread is waiting in get(), or   *)
(* it has left its loop after a recovery whose p.open raised.              *)

\* lines 117-133 after stop_stream(), close() and a p.open that raised:
\* the thread is gone and out_stream is the closed handle
OutThreadGone ==
    /\ output_queue = <<>>
    /\ should_stop = FALSE
    /\ pcOut = "exit"
    /\ audio = 0
    /\ error_count = max_consecutive_errors
    /\ out_stream = 1
    /\ open_streams = {}
    /\ stream_active = FALSE
    /\ nOpened = 1
    /\ played = <<>>
    /\ nEnqueued = 0
    /\ pcInt = "idle"
    /\ nInterrupts = 0
    /\ enqueued_at_call = 0
    /\ cutoff = 0
    /\ played_at_return = 0

InitCall ==
    /\ mode = "call"
    /\ silence_run = 0
    /\ last_stop = NoStop
    /\ IdleGui
    /\ wav_file = NoFile
    /\ dir_exists = TRUE
    /\ InitPush
    /\ IdlePull
    /\ InitOut \/ OutThreadGone

CallEnqueue == EnqueueUpTo(CallQueued)

NextCall ==
    \/ StartRecording
    \/ SessionChunk
    \/ CbLocked
    \/ CbParent
    \/ CallEnqueue
    \/ InterruptCall
    \/ InterruptDrain
    \/ InterruptStop
    \/ InterruptStart

SpecCall == InitCall /\ [][NextCall]_vars

----------------------------------------------------------------------------
(* The application: the two buttons of CallControlGUI, and the start_call  *)
(* threads of VoiceCloneApp that a press starts.  The capture variables    *)
(* hold the state of the object self.audio_interface refers to.            *)

\* conversational_agent.py line 109: the parameters of start_conversation
\* next to self
start_conversation_parameters == {"agent_id"}

\* main.py lines 299-302: the keyword arguments start_call passes
start_call_keywords == {"audio_interface"}

\* a call with a keyword that is no parameter raises TypeError
UnexpectedKeyword(keywords, parameters) == keywords \ parameters # {}

\* start_conversation, lines 124-134: the interface the Conversation is
\* built with, or None when the call raises before it is built
ConversationInterface(keywords) ==
    IF UnexpectedKeyword(keywords, start_conversation_parameters) THEN None
    ELSE "DefaultAudioInterface"

\* the session opens the input stream of the interface it was built with,
\* and only a stream of a DualAudioInterface calls its _in_callback
DualInputOpen == session_interface = "DualAudioInterface"

\* the start_call threads that have not returned
RunningCalls == {w \in Calls : pcCall[w] \in {"start", "converse", "finally",
                                              "process"}}

\* the thread the next effective press of Start Call starts
NextCallId == Cardinality({w \in Calls : pcCall[w] # "none"}) + 1

\* a press of Start Call: a disabled button ignores it, a normal one runs
\* _handle_start_call, call_gui.py lines 98-108
PressStartCall ==
    /\ mode = "gui"
    /\ nPresses < MaxPresses
    /\ nPresses' = nPresses + 1
    /\ IF start_button = "normal" /\ ~call_active
       THEN /\ call_active' = TRUE
            /\ start_button' = "disabled"
            /\ hangup_button' = "normal"
            /\ pcCall' = [pcCall EXCEPT ![NextCallId] = "start"]
       ELSE UNCHANGED <<call_active, start_button, hangup_button, pcCall>>
    /\ UNCHANGED <<mode, pushVars, pullVars, outVars, silence_run, last_stop,
                   fsVars, after_calls, nHangups, session_interface,
                   mic_chunks>>

\* a press of Hangup: _handle_hangup, call_gui.py lines 110-117, and the
\* hangup_call thread it starts (main.py lines 316-323), whose
\* stop_conversation finds no conversation to end
PressHangup ==
    /\ mode = "gui"
    /\ nPresses < MaxPresses
    /\ nPresses' = nPresses + 1
    /\ IF hangup_button = "normal" /\ call_active
       THEN /\ hangup_button' = "disabled"
            /\ nHangups' = nHangups + 1
       ELSE UNCHANGED <<hangup_button, nHangups>>
    /\ UNCHANGED <<mode, pushVars, pullVars, outVars, silence_run, last_stop,
                   fsVars, call_active, start_button, pcCall, after_calls,
                   session_interface, mic_chunks>>

\* start_call, main.py lines 269-292: a new DualAudioInterface replaces
\* self.audio_interface and start_recording is called on it
StartCallRecord(w) ==
    /\ mode = "gui"
    /\ pcCall[w] = "start"
    /\ pcCall' = [pcCall EXCEPT ![w] = "converse"]
    /\ \E filename \in Filenames :
           /\ record_to_file' = filename
           /\ dir_exists' = DirAfterInit(dir_exists, filename)
    /\ recording_frames' = <<>>
    /\ is_recording' = TRUE
    /\ nStarts' = 1
    /\ nStops' = 0
    /\ mic_chunks' = 0
    /\ UNCHANGED <<mode, pullVars, outVars, silence_run, last_stop, wav_file,
                   speech_frames, target_duration, speech_seconds,
                   currently_speaking, recording_complete, silence_buffer,
                   pcCb, in_data, nDelivered, nForwarded, forwarded,
                   progress, pcStop, frame_count, written, stop_result,
                   call_active, start_button, hangup_button, after_calls,
                   nPresses, nHangups, session_interface>>

\* start_call, main.py lines 294-309: the call of start_conversation, until
\* it returns or raises
StartConversation(w) ==
    /\ mode = "gui"
    /\ pcCall[w] = "converse"
    /\ pcCall' = [pcCall EXCEPT ![w] = "finally"]
    /\ session_interface' = ConversationInterface(start_call_keywords)
    /\ UNCHANGED <<mode, pushVars, pullVars, outVars, silence_run, last_stop,
                   fsVars, call_active, start_button, hangup_button,
                   after_calls, nPresses, nHangups, mic_chunks>>

\* start_call, main.py lines 311-313, with gui.call_ended, call_gui.py
\* lines 119-122
CallEnded(w) ==
    /\ mode = "gui"
    /\ pcCall[w] = "finally"
    /\ pcCall' = [pcCall EXCEPT ![w] = "process"]
    /\ after_calls' = after_calls + 1
    /\ UNCHANGED <<mode, pushVars, pullVars, outVars, silence_run, last_stop,
                   fsVars, call_active, start_button, hangup_button,
                   nPresses, nHangups, session_interface, mic_chunks>>

\* _update_call_ended, call_gui.py lines 124-129, run by the main loop
UpdateCallEnded ==
    /\ mode = "gui"
    /\ after_calls > 0
    /\ after_calls' = after_calls - 1
    /\ call_active' = FALSE
    /\ start_button' = "normal"
    /\ hangup_button' = "disabled"
    /\ UNCHANGED <<mode, pushVars, pullVars, outVars, silence_run, last_stop,
                   fsVars, pcCall, nPresses, nHangups, session_interface,
                   mic_chunks>>

\* start_call, main.py line 314: _process_recording, lines 325-343, with
\* the stop_recording it calls on self.audio_interface
ProcessRecording(w) ==
    /\ mode = "gui"
    /\ pcCall[w] = "process"
    /\ pcCall' = [pcCall EXCEPT ![w] = "done"]
    /\ is_recording' = FALSE
    /\ nStops' = nStops + 1
    /\ IF ShouldSave(recording_frames, record_to_file)
       THEN /\ written' = Append(written, <<record_to_file, recording_frames>>)
            /\ stop_result' = record_to_file
            /\ wav_file' = wave_write(1, sample_width, push_rate,
                                      recording_frames)
       ELSE /\ written' = written
            /\ stop_result' = None
            /\ wav_file' = wav_file
    /\ last_stop' = [done |-> TRUE, starts |-> nStarts,
                     recorded |-> Len(recording_frames),
                     result |-> stop_result']
    /\ UNCHANGED <<mode, pullVars, outVars, silence_run, dir_exists,
                   record_to_file, recording_frames, speech_frames,
                   target_duration, speech_seconds, currently_speaking,
                   recording_complete, silence_buffer, pcCb, in_data,
                   nDelivered, nForwarded, forwarded, progress, pcStop,
                   nStarts, frame_count, call_active, start_button,
                   hangup_button, after_calls, nPresses, nHangups,
                   session_interface, mic_chunks>>

\* the microphone produces a chunk while the application records: the
\* chunk reaches line 244 of _in_callback if the session has opened the
\* input stream of the recording interface
MicChunk ==
    /\ mode = "gui"
    /\ is_recording
    /\ mic_chunks < MaxMicChunks
    /\ mic_chunks' = mic_chunks + 1
    /\ recording_frames' =
           IF DualInputOpen
           THEN Captured(recording_frames,
                         [id |-> mic_chunks + 1, samples |-> LoudSamples])
           ELSE recording_frames
    /\ UNCHANGED <<mode, pullVars, outVars, silence_run, last_stop, fsVars,
                   record_to_file, speech_frames, is_recording,
                   target_duration, speech_seconds, currently_speaking,
                   recording_complete, silence_buffer, pcCb, in_data,
                   nDelivered, nForwarded, forwarded, progress, pcStop,
                   nStarts, nStops, frame_count, written, stop_result,
                   call_active, start_button, hangup_button, pcCall,
                   after_calls, nPresses, nHangups, session_interface>>

InitGui ==
    /\ mode = "gui"
    /\ silence_run = 0
    /\ last_stop = NoStop
    /\ IdleGui
    /\ wav_file = NoFile
    /\ dir_exists \in BOOLEAN
    /\ IdlePush
    /\ IdlePull
    /\ IdleOut

NextGui ==
    \/ PressStartCall
    \/ PressHangup
    \/ \E w \in Calls : StartCallRecord(w)
    \/ \E w \in Calls : StartConversation(w)
    \/ \E w \in Calls : CallEnded(w)
    \/ UpdateCallEnded
    \/ \E w \in Calls : ProcessRecording(w)
    \/ MicChunk

SpecGui == InitGui /\ [][NextGui]_vars

----------------------------------------------------------------------------
(* Helpers of the properties *)

IsPrefix(a, b) == Len(a) <= Len(b) /\ SubSeq(b, 1, Len(a)) = a

\* the last n elements of a
LastN(a, n) == SubSeq(a, Len(a) - n + 1, Len(a))

AllSilence(a) == \A i \in DOMAIN a : ~is_speech(a[i])

SpeechCount(a) == Cardinality({i \in DOMAIN a : is_speech(a[i])})

ChunkBytes == 2 * FramesPerChunk

\* the callback has just run its block under the lock on in_data
PushProcessed == pcCb = "locked" /\ pcCb' # "locked"

\* the loop of record() has just processed the chunk data'
PullProcessed == pcRec = "read" /\ pcRec' = "loop"

----------------------------------------------------------------------------
(* C1: in both gates, Speaking falls to Waiting only while a silence chunk *)
(* is processed that is the silence_buffer_max-th consecutive silence      *)
(* chunk since the last speech chunk; nothing else flips the gate, and     *)
(* between chunks the pending run is shorter than silence_buffer_max.      *)

C1_PushFall ==
    (currently_speaking /\ ~currently_speaking') =>
        /\ PushProcessed
        /\ ~is_speech(in_data)
        /\ silence_run' = silence_buffer_max
        /\ Len(silence_buffer) = silence_buffer_max - 1
        /\ AllSilence(silence_buffer)

C1_PullFall ==
    (currently_recording /\ ~currently_recording') =>
        /\ PullProcessed
        /\ ~is_speech(data')
        /\ silence_run' = pull_silence_buffer_max
        /\ Len(pending_silence) = pull_silence_buffer_max - 1
        /\ AllSilence(pending_silence)

C1_RunBelowBound ==
    /\ Len(silence_buffer) < silence_buffer_max
    /\ Len(pending_silence) < pull_silence_buffer_max

C1_FallOnlyAfterDebounce ==
    /\ [][C1_PushFall /\ C1_PullFall]_vars
    /\ []C1_RunBelowBound

\* pull mode: the gate has fallen after the full run of silence
C1_Witness ==
    /\ mode = "pull"
    /\ ~currently_recording
    /\ speech_frame_count > 0
    /\ silence_run = pull_silence_buffer_max
    /\ pending_silence = <<>>

----------------------------------------------------------------------------
(* C2: within a session the accumulated speech measure never decreases     *)
(* from one processed chunk to the next, and no chunk leaves the speech    *)
(* buffer: speech_seconds and speech_frames in push mode, speech_frames,   *)
(* actual_speech_seconds and frames in pull mode.                          *)

C2_Step ==
    /\ speech_seconds' >= speech_seconds
    /\ IsPrefix(speech_frames, speech_frames')
    /\ speech_frame_count' >= speech_frame_count
    /\ actual_speech_seconds' >= actual_speech_seconds
    /\ IsPrefix(frames, frames')

C2_SpeechNeverDecreases == [][C2_Step]_vars

\* push mode: speech, a pause kept by the next speech chunk, then a pause
C2_Witness ==
    /\ mode = "push"
    /\ Len(speech_frames) >= 3
    /\ SpeechCount(speech_frames) < Len(speech_frames)
    /\ silence_buffer # <<>>
    /\ speech_seconds = Len(speech_frames) * ChunkBytes

----------------------------------------------------------------------------
(* C3: recording_complete is a one-way latch: it is set while the speech   *)
(* chunk is processed that first makes speech_seconds >= target_duration   *)
(* (the 2nd speech chunk for a target of 2 chunk durations), it is never   *)
(* cleared, and a chunk delivered afterwards changes none of               *)
(* recording_frames, speech_frames, silence_buffer, currently_speaking and *)
(* speech_seconds.                                                         *)

C3_Set ==
    (~recording_complete /\ recording_complete') =>
        /\ PushProcessed
        /\ is_speech(in_data)
        /\ speech_seconds < target_duration
        /\ speech_seconds' >= target_duration
        /\ SpeechCount(speech_frames') <= TargetChunks
        /\ (target_duration = 2 * ChunkBytes => SpeechCount(speech_frames') = 2)

C3_Latched ==
    recording_complete =>
        /\ recording_complete'
        /\ (pcCb' # pcCb =>
                UNCHANGED <<recording_frames, speech_frames, silence_buffer,
                            currently_speaking, speech_seconds>>)

C3_SetWhenReached ==
    pcCb # "locked" => (recording_complete <=> speech_seconds >= target_duration)

----------------------------------------------------------------------------
(* C4: push mode: a speech chunk that arrives while Speaking with k        *)
(* pending silence chunks, 1 <= k < silence_buffer_max, keeps the gate     *)
(* Speaking, appends the k chunks in order and then itself to              *)
(* speech_frames and empties the pending run; so after a speech chunk,     *)
(* silence_buffer_max - 1 silence chunks and a speech chunk speech_frames  *)
(* holds all of them in arrival order.                                     *)

C4_Flush ==
    (PushProcessed /\ is_speech(in_data) /\ currently_speaking
        /\ silence_buffer # <<>>) =>
        /\ Len(silence_buffer) \in 1..(silence_buffer_max - 1)
        /\ currently_speaking'
        /\ speech_frames' = (speech_frames \o silence_buffer) \o <<in_data>>
        /\ silence_buffer' = <<>>

\* the last chunks recorded are speech, silence_buffer_max - 1 silences, speech
ScenarioB ==
    /\ Len(recording_frames) >= silence_buffer_max + 1
    /\ LET run == LastN(recording_frames, silence_buffer_max + 1)
       IN  /\ is_speech(run[1])
           /\ is_speech(run[silence_buffer_max + 1])
           /\ AllSilence(SubSeq(run, 2, silence_buffer_max))

C4_ScenarioB ==
    ScenarioB =>
        /\ currently_speaking
        /\ silence_buffer = <<>>
        /\ Len(speech_frames) >= silence_buffer_max + 1
        /\ LastN(speech_frames, silence_buffer_max + 1)
               = LastN(recording_frames, silence_buffer_max + 1)

C4_PauseKeptInOrder ==
    /\ [][C4_Flush]_vars
    /\ []C4_ScenarioB

C4_Witness ==
    /\ ScenarioB
    /\ Len(speech_frames) = silence_buffer_max + 1
    /\ \A i \in 1..silence_buffer_max : speech_frames[i].id + 1 = speech_frames[i + 1].id

----------------------------------------------------------------------------
(* C5: pull mode: the chunks written to the saved file are in the order    *)
(* in which they were read; a pending silence run kept because speech      *)
(* resumed comes before the speech chunk that ended it.                    *)

InReadOrder(a) == \A i, j \in DOMAIN a : i < j => a[i].id < a[j].id

C5_SavedInReadOrder ==
    /\ InReadOrder(frames)
    /\ \A i \in DOMAIN saved : InReadOrder(saved[i])

----------------------------------------------------------------------------
(* C6: push mode: when the gate falls from Speaking to Waiting the silence *)
(* run is cleared, none of its chunks is added to speech_frames, and       *)
(* speech_frames and speech_seconds are what they were before the run; so  *)
(* a speech chunk followed by silence_buffer_max silence chunks leaves the *)
(* gate Waiting with only the speech chunk in speech_frames.               *)

C6_Fall ==
    (currently_speaking /\ ~currently_speaking') =>
        /\ silence_buffer' = <<>>
        /\ speech_frames' = speech_frames
        /\ speech_seconds' = speech_seconds
        /\ \A i \in DOMAIN speech_frames' :
               /\ speech_frames'[i] # in_data
               /\ \A j \in DOMAIN silence_buffer :
                      speech_frames'[i] # silence_buffer[j]

\* a silence chunk never changes the speech buffer, so the buffer at the
\* fall is the buffer from before the run
C6_SilenceKeepsSpeech ==
    (PushProcessed /\ ~is_speech(in_data)) =>
        UNCHANGED <<speech_frames, speech_seconds>>

\* the last chunks recorded are a speech chunk and silence_buffer_max silences
ScenarioC ==
    /\ Len(recording_frames) >= silence_buffer_max + 1
    /\ LET run == LastN(recording_frames, silence_buffer_max + 1)
       IN  /\ is_speech(run[1])
           /\ AllSilence(SubSeq(run, 2, silence_buffer_max + 1))

C6_ScenarioC ==
    (ScenarioC /\ pcCb # "locked") =>
        /\ ~currently_speaking
        /\ silence_buffer = <<>>
        /\ speech_frames # <<>>
        /\ speech_frames[Len(speech_frames)]
               = recording_frames[Len(recording_frames) - silence_buffer_max]
        /\ (Len(recording_frames) = silence_buffer_max + 1 /\ nStarts = 1
                => speech_frames = <<recording_frames[1]>>)

C6_RunDiscardedOnFall ==
    /\ [][C6_Fall /\ C6_SilenceKeepsSpeech]_vars
    /\ []C6_ScenarioC

C6_Witness ==
    /\ mode = "push"
    /\ ScenarioC
    /\ Len(recording_frames) = silence_buffer_max + 1
    /\ pcCb = "parent"
    /\ ~currently_speaking
    /\ Len(speech_frames) = 1
    /\ silence_run = silence_buffer_max

----------------------------------------------------------------------------
(* C7: pull mode: the first speech chunk read while the gate is Waiting    *)
(* puts the gate in Speaking on that chunk and is counted in the speech    *)
(* total.                                                                  *)

WaitingSpeechStep ==
    PullProcessed /\ ~currently_recording /\ is_speech(data')

C7_Step ==
    /\ WaitingSpeechStep =>
           LET run == Append(speech_buffer, data')
           IN  IF Len(run) >= speech_buffer_duration
               THEN /\ currently_recording'
                    /\ speech_frame_count' = speech_frame_count + Len(run)
                    /\ frames' = frames \o run
                    /\ speech_buffer' = <<>>
               ELSE /\ ~currently_recording'
                    /\ speech_frame_count' = speech_frame_count
                    /\ frames' = frames
                    /\ speech_buffer' = run
    /\ (PullProcessed /\ ~currently_recording /\ ~is_speech(data')) =>
           /\ speech_buffer' = <<>>
           /\ ~currently_recording'
    /\ (~currently_recording /\ currently_recording') => WaitingSpeechStep

\* while Waiting, speech_buffer is the run of speech chunks read last
C7_RunWhileWaiting ==
    (mode = "pull" /\ ~currently_recording /\ pcRec \in {"loop", "read"}) =>
        /\ Len(speech_buffer) < speech_buffer_duration \/ speech_buffer = <<>>
        /\ \A i \in DOMAIN speech_buffer :
               /\ is_speech(speech_buffer[i])
               /\ speech_buffer[i].id = total_frames - Len(speech_buffer) + i

----------------------------------------------------------------------------
(* C8: every chunk passed to _in_callback is handed to the parent's        *)
(* callback exactly once and unchanged, whatever the flags and the gate    *)
(* state and whatever happens on the accumulation and display path.        *)

C8_EveryChunkForwardedOnce ==
    pcCb = "idle" =>
        /\ nForwarded = nDelivered
        /\ forwarded = in_data

----------------------------------------------------------------------------
(* C9: a chunk delivered during a capture session is handed to the         *)
(* external consumer before it is fed to the accumulation path: a chunk    *)
(* that has been recorded has already been passed to the parent.           *)

C9_ForwardedBeforeAccumulated ==
    \A i \in DOMAIN recording_frames : recording_frames[i].id <= nForwarded

----------------------------------------------------------------------------
(* C10: once interrupt() has returned, no chunk enqueued before that       *)
(* interrupt() was called is written to the output stream.                 *)

C10_NoStaleChunkAfterInterrupt ==
    \A i \in DOMAIN played : i > played_at_return => played[i] > cutoff

----------------------------------------------------------------------------
(* C11: a stop_recording that follows another stop_recording, with no      *)
(* start_recording and no captured chunk in between, returns what the      *)
(* first returned (the session's file when chunks were captured) and       *)
(* writes a file with the same name and the same content.                  *)

RepeatedStop ==
    /\ pcStop = "save"
    /\ pcStop' = "idle"
    /\ last_stop.done
    /\ last_stop.starts = nStarts
    /\ last_stop.recorded = Len(recording_frames)

C11_Step ==
    RepeatedStop =>
        /\ stop_result' = last_stop.result
        /\ stop_result' = stop_result
        /\ (nStarts > 0 /\ recording_frames # <<>>) => stop_result' = record_to_file
        /\ stop_result' # None =>
               /\ written # <<>>
               /\ written'[Len(written')] = written[Len(written)]
        /\ stop_result' = None => written' = written

----------------------------------------------------------------------------
(* C12: the file of one recording session is written exactly once: there   *)
(* are never more file writes than start_recording calls.                  *)

C12_OneWritePerSession == Len(written) <= nStarts

----------------------------------------------------------------------------
(* C13: a chunk whose write to the output stream failed is not dropped     *)
(* without a retry: when _output_thread has finished with a dequeued chunk *)
(* and goes back to the queue, that chunk has been written to the stream.  *)

C13_FailedChunkRetried ==
    [][(pcOut = "write" /\ pcOut' = "get") => played' = Append(played, audio)]_vars

----------------------------------------------------------------------------
(* C14: output-path errors are not fatal: _output_thread leaves its drain  *)
(* loop only after should_stop has been set.                               *)

C14_ExitOnlyAfterStop == pcOut = "exit" => should_stop

----------------------------------------------------------------------------
(* C15: the test of is_recording and recording_complete and the update it  *)
(* guards are one atomic step under recording_lock: whenever the callback  *)
(* runs its locked block, the session is still recording and not complete. *)

C15_TestAndUpdateAtomic ==
    [][PushProcessed => (is_recording /\ ~recording_complete)]_vars

----------------------------------------------------------------------------
(* C16: no console or GUI output is made while recording_lock is held: no  *)
(* step of the locked block of _in_callback writes the progress display.   *)

C16_NoDisplayUnderLock ==
    [][pcCb = "locked" => progress' = progress]_vars

----------------------------------------------------------------------------
(* C17: the input stream and the audio device of record() are released on  *)
(* every path by which record() ends, the return and the exception alike.  *)

C17_StreamReleasedOnEveryPath ==
    (mode = "pull" /\ pcRec \in {"done", "raised"}) => stream = "closed"

----------------------------------------------------------------------------
(* C18: a read that overflowed does not end a recording of AudioRecorder:  *)
(* when record() has ended, it has closed its stream and saved its file.   *)

C18_OverflowSessionStillSaves ==
    (mode = "fixed" /\ pcRec \in {"done", "raised"}) =>
        /\ stream = "closed"
        /\ Len(saved) = 1

----------------------------------------------------------------------------
(* C20: when record() has returned after the time ceiling was reached, the *)
(* file holds exactly the chunks counted as speech and their duration is   *)
(* reported, or nothing was counted, no file is written and None is        *)
(* returned.                                                               *)

CeilingReached == mode = "pull" /\ pcRec = "done" /\ total_frames >= max_frames

C20_CeilingEndsNormally ==
    CeilingReached =>
        /\ Len(frames) = speech_frame_count
        /\ actual_speech_seconds = speech_frame_count * chunk
        /\ stream = "closed"
        /\ IF speech_frame_count > 0
           THEN saved = <<frames>> /\ record_result = "smart_recorded_voice.wav"
           ELSE saved = <<>> /\ record_result = None

C20_Witness ==
    /\ CeilingReached
    /\ ~stop_flag
    /\ 0 < speech_frame_count
    /\ speech_frame_count < target_frames
    /\ speech_buffer # <<>>
    /\ saved = <<frames>>

----------------------------------------------------------------------------
(* C19: a chunk whose length is not valid for 16-bit samples is fatal to   *)
(* the chunk handler: the locked block of _in_callback never completes for *)
(* such a chunk, so it is never classified and never recorded.             *)

C19_MalformedChunkIsFatal ==
    [][~(PushProcessed /\ Malformed(in_data))]_vars

----------------------------------------------------------------------------
(* C21: the saved wave file, read back, gives the capture parameters (one  *)
(* channel, 2-byte samples, the capture rate) and exactly the samples of   *)
(* the buffered chunks, in buffer order and in the same number.            *)

RECURSIVE TotalSamples(_)
TotalSamples(chunks) ==
    IF chunks = <<>> THEN 0
    ELSE Len(Head(chunks).samples) + TotalSamples(Tail(chunks))

SavedBuffer ==
    IF mode = "push" THEN written[Len(written)][2] ELSE saved[Len(saved)]

CaptureRate == IF mode = "push" THEN 16000 ELSE sample_rate

----------------------------------------------------------------------------
(* C26: start_recording begins a fresh session: after it the gate is       *)
(* Waiting, the pending silence run, the raw buffer and the speech buffer  *)
(* are empty, speech_seconds is 0 and the completion latch is false.       *)

C26_StartIsFresh ==
    [][nStarts' = nStarts + 1 =>
           /\ recording_frames' = <<>>
           /\ speech_frames' = <<>>
           /\ silence_buffer' = <<>>
           /\ speech_seconds' = 0
           /\ ~currently_speaking'
           /\ ~recording_complete']_vars

----------------------------------------------------------------------------
(* C27: the output directory exists whenever a recording is about to be    *)
(* written.                                                                *)

C27_DirectoryExistsAtSave ==
    (pcStop = "save" /\ ShouldSave(recording_frames, record_to_file))
        => dir_exists

----------------------------------------------------------------------------
(* C22: at most one output stream is open at any time, for every           *)
(* interleaving of the recovery of _output_thread with the fallback of     *)
(* interrupt(), and once neither of the two is in progress out_stream      *)
(* refers to an open stream.                                               *)

RecoveryInProgress == pcOut \in {"recover", "reopen"}

InterruptInProgress == pcInt \in {"drain", "restart", "start"}

C22_OneOpenOutputStream ==
    /\ Cardinality(open_streams) <= 1
    /\ (~RecoveryInProgress /\ ~InterruptInProgress)
           => out_stream \in open_streams
----------------------------------------------------------------------------
(* C23: in both gates a chunk is treated as speech exactly when its RMS    *)
(* level is strictly above silence_threshold; a chunk whose level equals   *)
(* the threshold is silence: it starts no speech and counts as one more    *)
(* silence chunk.                                                          *)

LevelAbove(bytes) ==
    SumSquares(bytes.samples) > 500 * 500 * Len(bytes.samples)

LevelAtThreshold(bytes) ==
    /\ Len(bytes.samples) > 0
    /\ SumSquares(bytes.samples) = 500 * 500 * Len(bytes.samples)

C23_PushStep ==
    PushProcessed =>
        /\ (silence_run' = 0) <=> LevelAbove(in_data)
        /\ (LevelAtThreshold(in_data) /\ ~currently_speaking)
               => (~currently_speaking' /\ speech_frames' = speech_frames)

C23_PullStep ==
    PullProcessed =>
        /\ (silence_run' = 0) <=> LevelAbove(data')
        /\ (LevelAtThreshold(data') /\ ~currently_recording)
               => (~currently_recording' /\ speech_buffer' = <<>>
                   /\ frames' = frames)

C23_ThresholdIsSilence == [][C23_PushStep /\ C23_PullStep]_vars

\* a chunk at the threshold has been processed by a gate that was Waiting
C23_Witness ==
    /\ mode = "pull"
    /\ pcRec = "loop"
    /\ LevelAtThreshold(data)
    /\ silence_run > 0
    /\ total_frames = 1
    /\ ~currently_recording
    /\ speech_buffer = <<>>
----------------------------------------------------------------------------
(* C24: processing a chunk whose level is not above the threshold never    *)
(* lengthens the speech buffer or raises the speech measure; with the gate *)
(* Waiting it leaves the gate Waiting and the pending silence run empty.   *)
(* While every chunk of a fresh session (the first one of the object) was  *)
(* silence the gate is Waiting and the speech buffer is empty.  Both       *)
(* gates.                                                                  *)

C24_PushStep ==
    (PushProcessed /\ ~LevelAbove(in_data)) =>
        /\ speech_frames' = speech_frames
        /\ speech_seconds' = speech_seconds
        /\ ~currently_speaking
               => (~currently_speaking' /\ silence_buffer' = <<>>)

C24_PullStep ==
    (PullProcessed /\ ~LevelAbove(data')) =>
        /\ frames' = frames
        /\ speech_frame_count' = speech_frame_count
        /\ actual_speech_seconds' = actual_speech_seconds
        /\ Len(speech_buffer') <= Len(speech_buffer)
        /\ ~currently_recording
               => (~currently_recording' /\ pending_silence' = <<>>)

\* the first session since construction has been fed silence only
OnlySilenceSoFar ==
    IF mode = "push"
    THEN /\ nStarts <= 1
         /\ \A i \in DOMAIN recording_frames : ~LevelAbove(recording_frames[i])
    ELSE mode = "pull" /\ silence_run = total_frames

C24_SilenceStaysWaiting ==
    OnlySilenceSoFar =>
        /\ ~currently_speaking /\ speech_frames = <<>> /\ speech_seconds = 0
        /\ ~currently_recording /\ frames = <<>> /\ speech_buffer = <<>>
        /\ speech_frame_count = 0

C24_SilenceAddsNoSpeech ==
    /\ [][C24_PushStep /\ C24_PullStep]_vars
    /\ []C24_SilenceStaysWaiting

\* a session that was fed SessionChunks silence chunks and nothing else
C24_Witness ==
    /\ mode = "push"
    /\ Len(recording_frames) = SessionChunks
    /\ silence_run = SessionChunks
    /\ OnlySilenceSoFar
    /\ ~currently_speaking
    /\ speech_frames = <<>>
----------------------------------------------------------------------------
(* C25: interrupt() touches only output-side state.  Every step of it      *)
(* leaves is_recording, recording_complete, the gate and the capture       *)
(* buffers unchanged and does not end the session; it removes queued       *)
(* chunks and adds none; on an open, active stream it stops and restarts   *)
(* the same handle, and out_stream is rebound only when the restart raised *)
(* (the stream was closed).  Chunks delivered after interrupt() are        *)
(* processed by the gate as before.                                        *)


C25_Frame ==
    (pcInt' # pcInt \/ (pcInt = "drain" /\ Len(output_queue') < Len(output_queue))) =>
        /\ UNCHANGED pushVars
        /\ UNCHANGED <<should_stop, pcOut, played, silence_run, fsVars>>
        /\ Len(output_queue') <= Len(output_queue)
        /\ (pcInt = "drain" /\ pcInt' = "restart") => output_queue = <<>>
        /\ out_stream \in open_streams =>
               /\ out_stream' = out_stream
               /\ open_streams' = open_streams
               /\ (pcInt = "restart" /\ stream_active)
                      => (pcInt' = "start" /\ ~stream_active')
               /\ pcInt = "start" => (pcInt' = "idle" /\ stream_active')
        /\ out_stream' # out_stream =>
               /\ out_stream \notin open_streams
               /\ out_stream \notin open_streams'
               /\ out_stream' \in open_streams'

\* a chunk processed after interrupt() returned goes through the gate
C25_ChunkAfterInterrupt ==
    (PushProcessed /\ nInterrupts > 0 /\ pcInt = "idle") =>
        /\ recording_frames' = Append(recording_frames, in_data)
        /\ LevelAbove(in_data) =>
               /\ currently_speaking'
               /\ speech_frames' # speech_frames
               /\ speech_frames'[Len(speech_frames')] = in_data
        /\ ~LevelAbove(in_data) => speech_frames' = speech_frames

----------------------------------------------------------------------------
(* C28: the debounce bound of each gate is the ceiling of the silence      *)
(* tolerance divided by the chunk duration:                                *)
(* ceil(silence_debounce * sample_rate / chunk).                           *)

Ceiling(n, d) == (n + d - 1) \div d

C28_DebounceBoundIsCeiling ==
    /\ silence_buffer_max = Ceiling(15 * 16000, 10 * 4000)
    /\ mode = "pull" =>
           pull_silence_buffer_max = Ceiling(15 * sample_rate, 10 * chunk)

----------------------------------------------------------------------------
(* C29: whenever the loop of record() has ended on its speech-target       *)
(* condition, the accumulated speech lasts at least target_duration:       *)
(* speech_frames * chunk / sample_rate >= target_duration.                 *)

C29_TargetMeansDuration ==
    (mode = "pull" /\ pcRec = "finish" /\ speech_frame_count >= target_frames)
        => speech_frame_count * chunk * 10 >= PullTargetTenths * sample_rate

----------------------------------------------------------------------------
(* C30: record() terminates: provided each read returns, the loop reads at *)
(* most int(sample_rate / chunk * max_total_time) chunks and then record() *)
(* stops the stream and finishes, even when no chunk is speech.            *)

C30_NeverReadsPastCeiling ==
    total_frames * chunk * 10 <= MaxTotalTenths * sample_rate

C30_RecordTerminates ==
    /\ []C30_NeverReadsPastCeiling
    /\ <>(pcRec = "done" /\ stream = "closed")

\* record() has ended at the ceiling after reading silence only
C30_Witness ==
    /\ mode = "pull"
    /\ pcRec = "done"
    /\ stream = "closed"
    /\ ~stop_flag
    /\ total_frames > 0
    /\ (total_frames + 1) * chunk * 10 > MaxTotalTenths * sample_rate
    /\ silence_run = total_frames
    /\ speech_frame_count = 0
----------------------------------------------------------------------------
(* C31: stop_recording returns a path only when at least one chunk was     *)
(* captured, a filename is set and the file was written completely; when   *)
(* it returns None (no chunk, or the write failed) no file of that session *)
(* is on disk.                                                             *)

C31_PathOrNoFile ==
    last_stop.done =>
        /\ last_stop.result # None =>
               /\ last_stop.recorded > 0
               /\ record_to_file # None
               /\ written # <<>>
               /\ wav_file = wave_write(1, 2, 16000, written[Len(written)][2])
        /\ (last_stop.result = None /\ written = <<>>) => wav_file = NoFile
----------------------------------------------------------------------------
(* C32: the raw buffer recording_frames receives exactly the chunks that   *)
(* entered _in_callback while is_recording was true and the completion     *)
(* latch was clear, speech and silence alike, each once and in arrival     *)
(* order; nothing else adds to it.  stop_recording writes the              *)
(* concatenation of this buffer, not of speech_frames, and                 *)
(* get_recording_duration is its byte length divided by 32000.             *)

\* a chunk enters the block that records it exactly under the two flags
C32_Admission ==
    (pcCb = "idle" /\ pcCb' # "idle") =>
        ((pcCb' = "locked") <=> (is_recording /\ ~recording_complete))

\* an admitted chunk is appended, whatever its level, and nothing else
\* changes the buffer but the reset of start_recording
C32_Append ==
    /\ PushProcessed => recording_frames' = recording_frames \o <<in_data>>
    /\ recording_frames' # recording_frames =>
           \/ PushProcessed
           \/ nStarts' = nStarts + 1 /\ recording_frames' = <<>>

C32_ArrivalOrder ==
    \A i, j \in DOMAIN recording_frames :
        i < j => recording_frames[i].id < recording_frames[j].id

C32_FileIsRawBuffer ==
    (pcStop = "save" /\ pcStop' = "idle" /\ stop_result' # None) =>
        /\ wav_file'.payload = Join(recording_frames)
        /\ written'[Len(written')][2] = recording_frames

C32_Duration ==
    get_recording_duration = 2 * Len(Join(recording_frames))

C32_RawBufferHoldsDelivered ==
    /\ [][C32_Admission /\ C32_Append /\ C32_FileIsRawBuffer]_vars
    /\ [](C32_ArrivalOrder /\ C32_Duration)

\* a saved session whose raw buffer holds silence that the speech buffer
\* does not
C32_Witness ==
    /\ mode = "push"
    /\ written # <<>>
    /\ Len(recording_frames) = SessionChunks
    /\ wav_file.payload = Join(recording_frames)
    /\ \E i \in DOMAIN recording_frames : ~LevelAbove(recording_frames[i])
    /\ speech_frames # <<>>
    /\ Len(speech_frames) < Len(recording_frames)
    /\ get_recording_duration = SessionChunks * ChunkBytes
----------------------------------------------------------------------------
(* C33: in record() no speech chunk read while the gate is Speaking is     *)
(* lost: such a chunk, once it is in the candidate buffer, stays there or  *)
(* moves to the saved frames, and is counted, also when the gate falls     *)
(* back to Waiting.                                                        *)

InSeq(c, a) == \E i \in DOMAIN a : a[i] = c

C33_Step ==
    (mode = "pull" /\ currently_recording) =>
        \A i \in DOMAIN speech_buffer :
            LevelAbove(speech_buffer[i]) =>
                \/ InSeq(speech_buffer[i], speech_buffer')
                \/ InSeq(speech_buffer[i], frames')

C33_Counted == mode = "pull" => speech_frame_count = Len(frames)

C33_NoSpeechLostWhileSpeaking == [][C33_Step]_vars /\ []C33_Counted
----------------------------------------------------------------------------
(* C34: _output_thread recreates the output stream only when the fifth     *)
(* consecutive write has just failed.  A successful write and a successful *)
(* recreation reset the error counter to 0, with fewer than five           *)
(* consecutive failures the thread neither closes nor reopens the stream,  *)
(* and the counter is between 0 and 4 whenever a chunk is dequeued.        *)

\* a step of the output thread
OutputThreadStep ==
    pcOut' # pcOut \/ played' # played \/ error_count' # error_count

C34_Step ==
    /\ (pcOut # "recover" /\ pcOut' = "recover") =>
           (pcOut = "write" /\ error_count = 4 /\ error_count' = 5)
    /\ played' # played => error_count' = 0
    /\ (pcOut = "reopen" /\ pcOut' = "get") =>
           (error_count' = 0 /\ out_stream' \in open_streams')
    /\ (OutputThreadStep /\ pcOut \in {"get", "write"}) =>
           UNCHANGED <<out_stream, open_streams, nOpened>>
    /\ (pcOut = "write" /\ pcOut' = "get" /\ played' = played) =>
           (error_count' = error_count + 1 /\ error_count' < 5)

C34_CounterAtDequeue ==
    pcOut \in {"get", "write"} => error_count \in 0..4

C34_RecreateOnFifthFailure == [][C34_Step]_vars /\ []C34_CounterAtDequeue

\* the thread has recreated the stream after five failed writes and plays
\* on
C34_Witness ==
    /\ mode = "out"
    /\ nInterrupts = 0
    /\ nOpened = 2
    /\ out_stream = 2
    /\ open_streams = {2}
    /\ error_count = 0
    /\ pcOut = "get"
    /\ nEnqueued = 5
    /\ played = <<>>
----------------------------------------------------------------------------
(* C35: whenever a gate is Waiting its pending silence run is empty, in    *)
(* every state of _in_callback's object and at the top of every iteration  *)
(* of the loop of record(); so a chunk processed while Waiting brings no   *)
(* silence into the speech buffer.                                         *)

C35_WaitingHasNoPendingSilence ==
    /\ ~currently_speaking => silence_buffer = <<>>
    /\ (mode = "pull" /\ pcRec = "loop" /\ ~currently_recording)
           => pending_silence = <<>>

C35_PushStep ==
    (PushProcessed /\ ~currently_speaking) =>
        \/ speech_frames' = speech_frames
        \/ LevelAbove(in_data) /\ speech_frames' = speech_frames \o <<in_data>>

C35_PullStep ==
    (PullProcessed /\ ~currently_recording) =>
        /\ \A i \in DOMAIN speech_buffer' : LevelAbove(speech_buffer'[i])
        /\ \A i \in DOMAIN frames' :
               i > Len(frames) => LevelAbove(frames'[i])

C35_NoSilenceRunWhileWaiting ==
    /\ []C35_WaitingHasNoPendingSilence
    /\ [][C35_PushStep /\ C35_PullStep]_vars

\* the gate of the call fell to Waiting after a full run of silence and
\* then took a speech chunk
C35_Witness ==
    /\ mode = "push"
    /\ currently_speaking
    /\ silence_buffer = <<>>
    /\ Len(recording_frames) = silence_buffer_max + 2
    /\ Len(speech_frames) = 2
    /\ LevelAbove(in_data)
    /\ pcCb = "idle"
----------------------------------------------------------------------------
(* C36: when recording_complete becomes true the speech buffer of the call *)
(* holds at most N + silence_buffer_max - 1 chunks, N being the smallest   *)
(* number of chunks whose duration reaches target_duration, and it does    *)
(* not grow afterwards.                                                    *)

\* the smallest n with n * ChunkBytes >= target_duration
ChunksForTarget == (target_duration + ChunkBytes - 1) \div ChunkBytes

C36_Step ==
    /\ (~recording_complete /\ recording_complete') =>
           /\ Len(speech_frames') * ChunkBytes >= target_duration
           /\ Len(speech_frames') <= ChunksForTarget + 6 - 1
    /\ recording_complete =>
           (recording_complete' /\ speech_frames' = speech_frames)

----------------------------------------------------------------------------
(* C37: for every interleaving of the callback thread with stop_recording, *)
(* no chunk is appended to recording_frames after stop_recording has set   *)
(* is_recording to false, so the frame count stop_recording reports is the *)
(* number of chunks in the file it saves.                                  *)

C37_Step ==
    /\ (~is_recording /\ nStops > 0) =>
           Len(recording_frames') <= Len(recording_frames)
    /\ (pcStop = "save" /\ pcStop' = "idle" /\ stop_result' # None) =>
           frame_count = Len(written'[Len(written')][2])

C37_CountMatchesSavedFile == [][C37_Step]_vars
----------------------------------------------------------------------------
(* C38: from the GUI at most one call worker runs at a time: call_active   *)
(* returns to false only when the start_call thread of the call has        *)
(* finished, its processing of the recording included, so that two         *)
(* start_call threads never run at the same time.                          *)

C38_OneCallWorker == Cardinality(RunningCalls) <= 1

\* the guards of the two handlers, which C38 states too: a press while
\* call_active is true starts no start_call thread, and a hangup is started
\* only while call_active is true
C38_GuardsStep ==
    /\ (call_active /\ nPresses' # nPresses) => pcCall' = pcCall
    /\ nHangups' # nHangups => call_active

C38_Guards == [][C38_GuardsStep]_vars

\* call_active is false while a start_call thread processes its recording
C38_InactiveWhileProcessing ==
    ~call_active /\ \E w \in Calls : pcCall[w] = "process"
----------------------------------------------------------------------------
(* C39: start_call runs the conversation through the DualAudioInterface on *)
(* which it has just called start_recording: once the call of              *)
(* start_conversation has been made the session holds that interface, and  *)
(* every chunk the microphone produced during the call is in the buffer    *)
(* that the stop_recording call of the end of the call reads.              *)

C39_ConversationOnRecordingInterface ==
    /\ (\E w \in Calls : pcCall[w] \in {"finally", "process", "done"})
           => DualInputOpen
    /\ is_recording => Len(recording_frames) = mic_chunks

\* a call has ended and its stop_recording has found no frame, although
\* the microphone produced chunks while it recorded
C39_CallLeftNoRecording ==
    /\ last_stop.done
    /\ last_stop.recorded = 0
    /\ last_stop.result = None
    /\ mic_chunks > 0

====
